---- MODULE Spec2Model ----
(***************************************************************************)
(* Replica-exchange engine of theavey/metadmodel (package remd_model):     *)
(* Walker, Replicas, System and Simulation, as one state machine, and the   *)
(* metadynamics Simulation of src/Simulation.py with its Particle and FES. *)
(*                                                                         *)
(* Numbers.  Temperatures are fixed-point integers (kelvin, truncated),    *)
(* exp() is a truncated Taylor series in units of 1/1000.  Energies are    *)
(* samples of a normal distribution in the code; the code only subtracts   *)
(* the energies of adjacent slots and looks at the sign of the product     *)
(* with a temperature term, so a sample is one of two levels (0 = low,     *)
(* 1 = high), which gives every sign to every pair of a sweep.  A uniform  *)
(* draw of numpy.random.rand is any value of RandLevels, in units of 1/2   *)
(* (0 = 0.0, 1 = 0.5); acceptance probabilities are in the same unit       *)
(* (2 = 1.0).                                                              *)
(***************************************************************************)
EXTENDS Integers, Sequences, FiniteSets, TLC

\* ------------------------------------------------------------------ bounds
MaxSize == 4        \* largest ensemble of the Replicas and System specifications
MaxSimSize == 3     \* largest ensemble of the Simulation specification
MaxSteps == 2       \* largest n_steps
MaxInterval == 3    \* largest interval
MaxSweeps == 3      \* number of System.exchange() calls of one behaviour
MaxWalkers == 3     \* largest ensemble of the Walker specification
MaxEnsemble == 3    \* largest ensemble of the Ensemble specification
MaxAnySize == 3     \* largest ensemble of the AnySlot specification
MaxRunSteps == 3    \* largest steps argument of the metadynamics run
MaxFreq == 2        \* largest metad_freq
MaxStart == 1       \* largest initial position and velocity of a particle

\* ------------------------------------------------------- program constants
StartTemp == 300    \* default start_temp

EnergyLevels == {0, 1}
RandLevels == {0, 1}
ScalingExponents == {0, 50}   \* scaling_exponent in units of 1/1000

VARIABLES
    size,                \* Replicas.size / System.size / Simulation.size
    temps,               \* Replicas.temps      : slot -> temperature
    walkers,             \* Replicas.walkers    : w_index -> Walker
    indexes,             \* Replicas.indexes    : slot -> w_index
    last_exchange_even,  \* System._last_exchange_even
    n_steps,             \* Simulation.n_steps
    interval,            \* Simulation.interval
    energies,            \* Simulation.energies : row -> slot -> energy
    states,              \* Simulation.states   : row -> slot -> w_index
    i,                   \* loop variable of Simulation.run
    status,              \* position of Simulation.run
    written,             \* rows of the logs assigned by Simulation.run
    call,                \* the last call made from outside and its outcome
    sweep,               \* what the last System.exchange() did
    offsets,             \* offset used by each System.exchange() so far
    prevPairs,           \* pairs evaluated by the System.exchange() before the last
    dimension,           \* metadynamics Simulation._dimension
    particle,            \* metadynamics Simulation._particle (None or boxed)
    metad,               \* metadynamics Simulation._metad (None or boxed)
    metad_freq,          \* metadynamics Simulation._metad_freq
    trajectory,          \* metadynamics Simulation._trajectory (None or boxed)
    run_steps,           \* argument steps of the metadynamics Simulation.run
    hillSteps,           \* loop steps at which run called particle.add_hill()
    reply                \* what the last property read printed and returned

metadVars == <<dimension, particle, metad, metad_freq, trajectory, run_steps,
               hillSteps, reply>>

vars == <<size, temps, walkers, indexes, last_exchange_even, n_steps, interval,
          energies, states, i, status, written, call, sweep, offsets, prevPairs,
          metadVars>>

replicaVars == <<size, temps, walkers, indexes>>
simVars == <<n_steps, interval, energies, states, i, status, written>>

\* ----------------------------------------------------------------- helpers
Abs(x) == IF x < 0 THEN -x ELSE x

Slots == 0..(size - 1)

\* exp(x) for x in units of 1/1000, result in units of 1/1000
Exp(x) == 1000 + x + (x * x) \div 2000 + (x * x * x) \div 6000000

\* temperature of slot k: start_temp * exp(k * scaling_exponent)
SlotTemp(start_temp, scaling_exponent, k) ==
    (start_temp * Exp(k * scaling_exponent)) \div 1000

\* numpy index normalisation: valid raw indexes are -n..n-1
InBounds(idx, n) == idx >= -n /\ idx <= n - 1
Norm(idx, n) == IF idx < 0 THEN idx + n ELSE idx

\* ------------------------------------------------------------------ Walker
NewWalker(index, temp) ==
    [w_index |-> index, r_index |-> index, temp |-> temp]

\* variant: the setter validates but does not store the value
SetRIndexNoStore(w, val) ==
    IF Abs(val - w.r_index) > 1 \/ val = w.r_index
    THEN [walker |-> w, err |-> "ValueError"]
    ELSE [walker |-> w, err |-> "none"]

\* variant: the setter does not reject val == old
SetRIndexNoSelfCheck(w, val) ==
    IF Abs(val - w.r_index) > 1
    THEN [walker |-> w, err |-> "ValueError"]
    ELSE [walker |-> [w EXCEPT !.r_index = val], err |-> "none"]

\* variant: the setter stores the value in w_index as well
SetRIndexRenames(w, val) ==
    IF Abs(val - w.r_index) > 1 \/ val = w.r_index
    THEN [walker |-> w, err |-> "ValueError"]
    ELSE [walker |-> [w EXCEPT !.r_index = val, !.w_index = val],
          err |-> "none"]

\* Walker.r_index setter: the walker afterwards and the error raised
SetRIndex(w, val) ==
    IF Abs(val - w.r_index) > 1 \/ val = w.r_index
    THEN [walker |-> w, err |-> "ValueError"]
    ELSE [walker |-> [w EXCEPT !.r_index = val], err |-> "none"]

\* ---------------------------------------------------------------- Replicas
\* Replicas.replicas: the walkers in slot order
Replicas(ws, idxs) == [s \in DOMAIN idxs |-> ws[idxs[s]]]

\* variant: the loop leaves the walkers' temperatures alone
RECURSIVE ExchangeLoopNoTemp(_, _, _, _, _)
ExchangeLoopNoTemp(ws, who, tmps, indexer, k) ==
    IF k > Len(indexer) THEN [walkers |-> ws, err |-> "none"]
    ELSE LET w == who[k]
             set == SetRIndex(ws[w], indexer[k])
         IN  IF set.err # "none"
             THEN [walkers |-> ws, err |-> set.err]
             ELSE ExchangeLoopNoTemp([ws EXCEPT ![w] = set.walker],
                                     who, tmps, indexer, k + 1)

\* variant: the loop assigns the temperature to every walker of the ensemble
RECURSIVE ExchangeLoopAllTemps(_, _, _, _, _)
ExchangeLoopAllTemps(ws, who, tmps, indexer, k) ==
    IF k > Len(indexer) THEN [walkers |-> ws, err |-> "none"]
    ELSE LET w == who[k]
             withTemp == [x \in DOMAIN ws |-> [ws[x] EXCEPT !.temp = tmps[k]]]
             set == SetRIndex(withTemp[w], indexer[k])
         IN  IF set.err # "none"
             THEN [walkers |-> withTemp, err |-> set.err]
             ELSE ExchangeLoopAllTemps([withTemp EXCEPT ![w] = set.walker],
                                       who, tmps, indexer, k + 1)

\* the loop of Replicas.exchange over zip(replicas[indexer], temps, indexer),
\* from position k; stops at the first error
RECURSIVE ExchangeLoop(_, _, _, _, _)
ExchangeLoop(ws, who, tmps, indexer, k) ==
    IF k > Len(indexer) THEN [walkers |-> ws, err |-> "none"]
    ELSE LET w == who[k]
             withTemp == [ws EXCEPT ![w].temp = tmps[k]]
             set == SetRIndex(withTemp[w], indexer[k])
         IN  IF set.err # "none"
             THEN [walkers |-> withTemp, err |-> set.err]
             ELSE ExchangeLoop([withTemp EXCEPT ![w] = set.walker],
                               who, tmps, indexer, k + 1)

\* variant: only the lower entry of indexes is written back
ReplicasExchangeHalfWrite(n, tmps, ws, idxs, lower_ind) ==
    LET indexer == <<lower_ind, lower_ind + 1>>
    IN  IF ~(InBounds(indexer[1], n) /\ InBounds(indexer[2], n))
        THEN [temps |-> tmps, walkers |-> ws, indexes |-> idxs,
              err |-> "IndexError"]
        ELSE LET a == Norm(indexer[1], n)
                 b == Norm(indexer[2], n)
                 t == <<tmps[a], tmps[b]>>
                 inds == <<idxs[a], idxs[b]>>
                 idxs1 == [idxs EXCEPT ![a] = inds[2]]
                 who == <<inds[2], inds[1]>>
                 r == ExchangeLoop(ws, who, t, indexer, 1)
             IN  [temps |-> tmps, walkers |-> r.walkers, indexes |-> idxs1,
                  err |-> r.err]

\* variant: the two entries of temps are swapped along with the occupants
ReplicasExchangeSwapTemps(n, tmps, ws, idxs, lower_ind) ==
    LET indexer == <<lower_ind, lower_ind + 1>>
    IN  IF ~(InBounds(indexer[1], n) /\ InBounds(indexer[2], n))
        THEN [temps |-> tmps, walkers |-> ws, indexes |-> idxs,
              err |-> "IndexError"]
        ELSE LET a == Norm(indexer[1], n)
                 b == Norm(indexer[2], n)
                 t == <<tmps[a], tmps[b]>>
                 inds == <<idxs[a], idxs[b]>>
                 idxs1 == [idxs EXCEPT ![a] = inds[2]]
                 idxs2 == [idxs1 EXCEPT ![b] = inds[1]]
                 who == <<idxs2[a], idxs2[b]>>
                 r == ExchangeLoop(ws, who, t, indexer, 1)
             IN  [temps |-> [tmps EXCEPT ![a] = t[2], ![b] = t[1]],
                  walkers |-> r.walkers, indexes |-> idxs2, err |-> r.err]

\* Replicas.exchange(lower_ind): the Replicas state afterwards and the error
ReplicasExchange(n, tmps, ws, idxs, lower_ind) ==
    LET indexer == <<lower_ind, lower_ind + 1>>
    IN  IF ~(InBounds(indexer[1], n) /\ InBounds(indexer[2], n))
        THEN [temps |-> tmps, walkers |-> ws, indexes |-> idxs,
              err |-> "IndexError"]
        ELSE LET a == Norm(indexer[1], n)
                 b == Norm(indexer[2], n)
                 t == <<tmps[a], tmps[b]>>
                 inds == <<idxs[a], idxs[b]>>
                 idxs1 == [idxs EXCEPT ![a] = inds[2]]
                 idxs2 == [idxs1 EXCEPT ![b] = inds[1]]
                 who == <<idxs2[a], idxs2[b]>>
                 r == ExchangeLoop(ws, who, t, indexer, 1)
             IN  [temps |-> tmps, walkers |-> r.walkers, indexes |-> idxs2,
                  err |-> r.err]

\* ------------------------------------------------------------ construction
\* Python's None; an object that may be None is boxed as <<object>>
None == << >>
Some(x) == <<x>>

NoReply == [printed |-> << >>, value |-> None]

\* no metadynamics Simulation has been constructed
NoMetadynamics ==
    /\ dimension = 0
    /\ particle = None
    /\ metad = None
    /\ metad_freq = 1
    /\ trajectory = None
    /\ run_steps = 0
    /\ hillSteps = << >>
    /\ reply = NoReply

NoCall == [op |-> "none", arg |-> 0, who |-> 0, err |-> "none"]
NoSweep == [offset |-> 0, n |-> 0, energies |-> << >>, probs |-> << >>,
            pairs |-> << >>, swapped |-> << >>, reads |-> {}, err |-> "none",
            called |-> FALSE]

\* Simulation(size, n_steps, interval, start_temp, scaling_exponent)
Construct(sz, steps, intv, start_temp, scaling_exponent) ==
    /\ size = sz
    /\ temps = [s \in 0..(sz - 1) |-> SlotTemp(start_temp, scaling_exponent, s)]
    /\ walkers = [w \in 0..(sz - 1) |->
                    NewWalker(w, SlotTemp(start_temp, scaling_exponent, w))]
    /\ indexes = [s \in 0..(sz - 1) |-> s]
    /\ last_exchange_even = FALSE
    /\ n_steps = steps
    /\ interval = intv
    /\ energies = [t \in 0..(steps - 1) |-> [s \in 0..(sz - 1) |-> 0]]
    /\ states = [t \in 0..(steps - 1) |-> [s \in 0..(sz - 1) |-> 0]]
    /\ i = 0
    /\ status = "constructed"
    /\ written = {}
    /\ call = NoCall
    /\ sweep = NoSweep
    /\ offsets = << >>
    /\ prevPairs = << >>

\* a Replicas ensemble on its own (no steps to run)
InitReplicas ==
    \E sz \in 2..MaxSize, se \in ScalingExponents :
        Construct(sz, 0, 1, StartTemp, se) /\ NoMetadynamics

\* ------------------------------------------------------------------ System
\* offset = 1 if self._last_exchange_even else 0
Offset(even) == IF even THEN 1 ELSE 0

\* n = self.size + offset % 2; in Python % binds tighter than +
SweepN(sz, offset) == sz + (offset % 2)

\* (energies[ind] - energies[ind+1]) * (1/temps[ind] - 1/temps[ind+1]),
\* multiplied by temps[ind] * temps[ind+1] > 0: the sign is the sign of expo
Expo(en, tmps, ind) == (en[ind] - en[ind + 1]) * (tmps[ind + 1] - tmps[ind])

\* variant: an exponent of exactly 0 gives a probability below 1.0
ProbStrict(expo) == IF expo > 0 THEN 2 ELSE 1

\* min(1, exp(expo)) in units of 1/2: 1.0 when expo >= 0, below 1.0 otherwise
Prob(expo) == IF expo >= 0 THEN 2 ELSE 1

\* variant: the loop steps through every adjacent pair (ind = i + offset) and
\* stops at the last pair that fits
RECURSIVE SweepLoopEveryPair(_, _, _)
SweepLoopEveryPair(st, k, c) ==
    IF k >= c.n THEN st
    ELSE LET ind == k + c.offset
         IN  IF ~InBounds(ind + 1, c.size) THEN st
             ELSE LET p == Prob(Expo(c.energies, st.temps, ind))
                      seen == [st EXCEPT !.reads = @ \cup {ind, ind + 1},
                                         !.pairs = Append(@, ind),
                                         !.probs = Append(@, p)]
                  IN  IF p > c.rands[k]
                      THEN LET r == ReplicasExchange(c.size, st.temps,
                                                     st.walkers, st.indexes, ind)
                               done == [seen EXCEPT !.temps = r.temps,
                                                    !.walkers = r.walkers,
                                                    !.indexes = r.indexes,
                                                    !.swapped = Append(@, ind),
                                                    !.err = r.err]
                           IN  IF r.err # "none" THEN done
                               ELSE SweepLoopEveryPair(done, k + 1, c)
                      ELSE SweepLoopEveryPair(seen, k + 1, c)

\* variant: after a swap the loop takes a new energy sample (here the sample
\* with every level flipped) and not the one taken at the top of the sweep
RECURSIVE SweepLoopResample(_, _, _)
SweepLoopResample(st, k, c) ==
    IF k >= c.n THEN st
    ELSE LET ind == 2 * k + c.offset
         IN  IF ~InBounds(ind, c.size)
             THEN [st EXCEPT !.reads = @ \cup {ind}, !.err = "IndexError"]
             ELSE IF ~InBounds(ind + 1, c.size)
             THEN [st EXCEPT !.reads = @ \cup {ind, ind + 1},
                             !.err = "IndexError"]
             ELSE LET p == Prob(Expo(c.energies, st.temps, ind))
                      seen == [st EXCEPT !.reads = @ \cup {ind, ind + 1},
                                         !.pairs = Append(@, ind),
                                         !.probs = Append(@, p)]
                      fresh == [c EXCEPT !.energies =
                                   [x \in DOMAIN c.energies |-> 1 - c.energies[x]]]
                  IN  IF p > c.rands[k]
                      THEN LET r == ReplicasExchange(c.size, st.temps,
                                                     st.walkers, st.indexes, ind)
                               done == [seen EXCEPT !.temps = r.temps,
                                                    !.walkers = r.walkers,
                                                    !.indexes = r.indexes,
                                                    !.swapped = Append(@, ind),
                                                    !.err = r.err]
                           IN  IF r.err # "none" THEN done
                               ELSE SweepLoopResample(done, k + 1, fresh)
                      ELSE SweepLoopResample(seen, k + 1, c)

\* the loop of System.exchange from iteration k; c holds what is fixed during
\* the sweep (offset, n, the energy snapshot, the draws), st what changes
RECURSIVE SweepLoop(_, _, _)
SweepLoop(st, k, c) ==
    IF k >= c.n THEN st
    ELSE LET ind == 2 * k + c.offset
         IN  IF ~InBounds(ind, c.size)
             THEN [st EXCEPT !.reads = @ \cup {ind}, !.err = "IndexError"]
             ELSE IF ~InBounds(ind + 1, c.size)
             THEN [st EXCEPT !.reads = @ \cup {ind, ind + 1},
                             !.err = "IndexError"]
             ELSE LET p == Prob(Expo(c.energies, st.temps, ind))
                      seen == [st EXCEPT !.reads = @ \cup {ind, ind + 1},
                                         !.pairs = Append(@, ind),
                                         !.probs = Append(@, p)]
                  IN  IF p > c.rands[k]
                      THEN LET r == ReplicasExchange(c.size, st.temps,
                                                     st.walkers, st.indexes, ind)
                               done == [seen EXCEPT !.temps = r.temps,
                                                    !.walkers = r.walkers,
                                                    !.indexes = r.indexes,
                                                    !.swapped = Append(@, ind),
                                                    !.err = r.err]
                           IN  IF r.err # "none" THEN done
                               ELSE SweepLoop(done, k + 1, c)
                      ELSE SweepLoop(seen, k + 1, c)

\* System.exchange(): the System state afterwards and what the sweep did;
\* en is the sample returned by System.energies, rands the draws
SystemExchange(sz, tmps, ws, idxs, even, en, rands) ==
    LET offset == Offset(even)
        n == SweepN(sz, offset)
        c == [size |-> sz, offset |-> offset, n |-> n,
              energies |-> en, rands |-> rands]
        st0 == [temps |-> tmps, walkers |-> ws, indexes |-> idxs,
                probs |-> << >>, pairs |-> << >>, swapped |-> << >>,
                reads |-> {}, err |-> "none"]
        st == SweepLoop(st0, 0, c)
    IN  [temps |-> st.temps, walkers |-> st.walkers, indexes |-> st.indexes,
         even |-> IF st.err = "none" THEN ~even ELSE even,
         err |-> st.err,
         sweep |-> [offset |-> offset, n |-> n, energies |-> en,
                    probs |-> st.probs,
                    pairs |-> st.pairs, swapped |-> st.swapped,
                    reads |-> st.reads, err |-> st.err, called |-> TRUE]]

\* the samples System.energies can return
EnergySamples(sz) == [0..(sz - 1) -> EnergyLevels]

\* the draws of rand(n); the loop raises before it compares the draw of an
\* iteration k whose pair does not fit below size, so that draw is never
\* read and is fixed to 0 here
RandDraws(sz, even) ==
    LET offset == Offset(even)
    IN  {r \in [0..(SweepN(sz, offset) - 1) -> RandLevels] :
            \A k \in DOMAIN r : 2 * k + offset + 1 > sz - 1 => r[k] = 0}

\* ----------------------------------------------------------------- actions
\* a call of Replicas.exchange(lower_ind) from outside
Exchange(lower_ind) ==
    \E r \in {ReplicasExchange(size, temps, walkers, indexes, lower_ind)} :
        /\ temps' = r.temps
        /\ walkers' = r.walkers
        /\ indexes' = r.indexes
        /\ call' = [op |-> "exchange", arg |-> lower_ind, who |-> 0, err |-> r.err]
        /\ UNCHANGED <<size, last_exchange_even, simVars, sweep,
                       offsets, prevPairs, metadVars>>

\* an assignment walker.r_index = val from outside
AssignRIndex(w, val) ==
    \E r \in {SetRIndex(walkers[w], val)} :
        /\ walkers' = [walkers EXCEPT ![w] = r.walker]
        /\ call' = [op |-> "r_index", arg |-> val, who |-> w, err |-> r.err]
        /\ UNCHANGED <<size, temps, indexes, last_exchange_even, simVars,
                       sweep, offsets, prevPairs, metadVars>>

\* a call of System.exchange() from outside
Sweep ==
    /\ Len(offsets) < MaxSweeps
    /\ \E en \in EnergySamples(size), rands \in RandDraws(size, last_exchange_even) :
        \E r \in {SystemExchange(size, temps, walkers, indexes,
                                  last_exchange_even, en, rands)} :
            /\ temps' = r.temps
            /\ walkers' = r.walkers
            /\ indexes' = r.indexes
            /\ last_exchange_even' = r.even
            /\ sweep' = r.sweep
            /\ offsets' = Append(offsets, r.sweep.offset)
            /\ prevPairs' = sweep.pairs
            /\ call' = [op |-> "sweep", arg |-> 0, who |-> 0, err |-> r.err]
            /\ UNCHANGED <<size, simVars, metadVars>>

\* ------------------------------------------------------------- Simulation
\* variant: the exchange is triggered when i % interval == 0
ExchangeDueOffByOne(t, intv) == t % intv = 0

\* if ((i+1) % self.interval) == 0
ExchangeDue(t, intv) == (t + 1) % intv = 0

\* variant: the row is assigned to the whole log (log[:] = row)
LogRowBroadcast(log, t, row) == [r \in DOMAIN log |-> row]

\* self.energies[i] = ... / self.states[i] = ...: the values of row are
\* copied into row t of the preallocated log
LogRow(log, t, row) == [log EXCEPT ![t] = row]

\* variant: an error of the exchange is swallowed and the loop goes on
RunStatusSwallow(err) == "running"

\* self.system.exchange() is called bare: an error leaves run() at once
RunStatus(err) == IF err = "none" THEN "running" ELSE "raised"

\* one iteration of the loop of Simulation.run: record row i, then exchange
\* when (i+1) % interval == 0; an error of the exchange ends the run
RunIter ==
    /\ status \in {"constructed", "running"}
    /\ i < n_steps
    /\ \E row \in EnergySamples(size) :
          energies' = LogRow(energies, i, row)
    /\ states' = LogRow(states, i, indexes)
    /\ written' = written \cup {i}
    /\ IF ExchangeDue(i, interval)
       THEN \E en \in EnergySamples(size),
               rands \in RandDraws(size, last_exchange_even) :
               \E r \in {SystemExchange(size, temps, walkers, indexes,
                                         last_exchange_even, en, rands)} :
                   /\ temps' = r.temps
                   /\ walkers' = r.walkers
                   /\ indexes' = r.indexes
                   /\ last_exchange_even' = r.even
                   /\ sweep' = r.sweep
                   /\ offsets' = Append(offsets, r.sweep.offset)
                   /\ prevPairs' = sweep.pairs
                   /\ i' = IF r.err = "none" THEN i + 1 ELSE i
                   /\ status' = RunStatus(r.err)
                   /\ call' = [op |-> "run", arg |-> 0, who |-> 0,
                               err |-> r.err]
       ELSE /\ i' = i + 1
            /\ status' = "running"
            /\ call' = [op |-> "run", arg |-> 0, who |-> 0, err |-> "none"]
            /\ UNCHANGED <<temps, walkers, indexes, last_exchange_even,
                           sweep, offsets, prevPairs>>
    /\ UNCHANGED <<size, n_steps, interval, metadVars>>

\* the loop of Simulation.run is exhausted: run() returns
RunReturn ==
    /\ status \in {"constructed", "running"}
    /\ i = n_steps
    /\ status' = "returned"
    /\ call' = [op |-> "run", arg |-> 0, who |-> 0, err |-> "none"]
    /\ UNCHANGED <<replicaVars, last_exchange_even, n_steps, interval,
                   energies, states, i, written, sweep, offsets, prevPairs,
                   metadVars>>

\* --------------------------------------------- metadynamics: FES, Particle
\* The free-energy surfaces are func(x) = k * x**2 with k in Curvatures, whose
\* gradient is 2 * k * x; particles have mass 1, time_step_size 2 and temp 0
\* (constant energy), so that move(0.5) is exact in integers.
Curvatures == {0, 1}

\* FES1D(func) and MetadFES1D(func, width, height) after construction
NewFES(isMetad, k) ==
    [dimensionality |-> 1, metad |-> isMetad, k |-> k, hill_list |-> << >>]

\* MetadFES1D._gaussian evaluates self._height * asp.norm(loc=..., scale=...)
\* and the caller then calls the product: autograd.scipy has no callable
\* norm, so the expression raises one of these, whichever the library build
GaussianErrors == {"AttributeError", "TypeError"}

\* FES1D.deriv(x) = self._grad_func(x); once a hill has been added the
\* gradient is that of _fes_with_hills, which evaluates _gaussian and raises e
Deriv(fes, x, e) ==
    IF fes.hill_list # << >>
    THEN [value |-> 0, err |-> e]
    ELSE [value |-> 2 * fes.k * x, err |-> "none"]

\* Particle(fes, x0, v0, temp=0., nh_const=1.) after construction
NewParticle(fes, x0, v0) ==
    [FES |-> fes, mass |-> 1, velocity |-> v0, position |-> x0, fric |-> 0,
     time_step_size |-> 2, metad |-> fes.metad, temp |-> 0, nhc |-> 1]

\* Particle.move(time) with time given in halves, on the branch of temp == 0:
\* the particle afterwards and the error raised
Move(p, halves, e) ==
    LET time_step == (p.time_step_size * halves) \div 2
        d0 == Deriv(p.FES, p.position, e)
        prev_acceleration == (0 - d0.value) \div p.mass
        pos == p.position + p.velocity * time_step
                 + (prev_acceleration * time_step * time_step) \div 2
        d1 == Deriv(p.FES, pos, e)
        acceleration == (0 - d1.value) \div p.mass
        vel == p.velocity
                 + (time_step * (prev_acceleration + acceleration)) \div 2
    IN  IF d0.err # "none" THEN [particle |-> p, err |-> d0.err]
        ELSE IF d1.err # "none"
        THEN [particle |-> [p EXCEPT !.position = pos], err |-> d1.err]
        ELSE [particle |-> [p EXCEPT !.position = pos, !.velocity = vel],
              err |-> "none"]

\* Particle.add_hill(): self._FES.add_hill(self.position); the base FES
\* refuses, MetadFES1D appends the position to its hill list
AddHill(p) ==
    IF p.FES.metad
    THEN [particle |-> [p EXCEPT !.FES.hill_list = Append(@, p.position)],
          err |-> "none"]
    ELSE [particle |-> p, err |-> "AttributeError"]

\* the particles and surfaces a Simulation is given
Surfaces == {NewFES(m, k) : m \in BOOLEAN, k \in Curvatures}
Particles == {NewParticle(f, x0, v0) :
                 f \in Surfaces, x0 \in 0..MaxStart, v0 \in 0..MaxStart}

\* ------------------------------------------- metadynamics: Simulation
NoDataMessage == "No trajectory data yet! Have you run yet?"

\* self._dimension as Simulation.__init__ settles it
Dimension(dim_arg, part, fes) ==
    LET d == IF dim_arg # None THEN dim_arg[1] ELSE 1
    IN  IF part # None
        THEN (IF part[1].FES.dimensionality # d
              THEN part[1].FES.dimensionality ELSE d)
        ELSE IF fes # None THEN fes[1].dimensionality ELSE d

\* Simulation(dimension, particle, fes, metad_freq)
SimulationInit(dim_arg, part, fes, freq) ==
    /\ dimension = Dimension(dim_arg, part, fes)
    /\ particle = part
    /\ metad = None
    /\ metad_freq = freq
    /\ trajectory = None
    /\ run_steps = 0
    /\ hillSteps = << >>
    /\ reply = NoReply

\* np.zeros((steps+1, 2*dimension), float)
ZeroTrajectory(st, dim) == [r \in 0..st |-> [c \in 1..(2 * dim) |-> 0]]

\* the trajectory property: what it prints, returns and raises
Trajectory(traj) ==
    [printed |-> IF traj = None THEN <<NoDataMessage>> ELSE << >>,
     value |-> traj, err |-> "none"]

\* the positions property: self.trajectory[:, 0:self._dimension]
Positions(traj, dim) ==
    IF traj = None
    THEN [printed |-> <<NoDataMessage, NoDataMessage>>, value |-> None,
          err |-> "TypeError"]
    ELSE [printed |-> << >>,
          value |-> Some([r \in DOMAIN traj[1] |-> SubSeq(traj[1][r], 1, dim)]),
          err |-> "none"]

\* the velocities property: self.trajectory[:, dim:2*dim]
Velocities(traj, dim) ==
    IF traj = None
    THEN [printed |-> <<NoDataMessage, NoDataMessage>>, value |-> None,
          err |-> "TypeError"]
    ELSE [printed |-> << >>,
          value |-> Some([r \in DOMAIN traj[1] |->
                            SubSeq(traj[1][r], dim + 1, 2 * dim)]),
          err |-> "none"]

\* the fields of the replica-exchange objects, untouched by the metadynamics
ensembleVars == <<replicaVars, last_exchange_even, n_steps, interval, energies,
                  states, sweep, offsets, prevPairs>>

\* if i % self._metad_freq == 0, on the branch of a metadynamics particle
HillDue(isMetad, step_num, freq) == isMetad /\ step_num % freq = 0

\* Simulation._time_step(step_num): move the particle by half a time step
\* and assign its position and velocity to row step_num
TimeStep(traj, p, step_num, e) ==
    LET m == Move(p, 1, e)
    IN  IF m.err # "none"
        THEN [trajectory |-> traj, particle |-> m.particle, err |-> m.err]
        ELSE [trajectory |->
                 [traj EXCEPT ![step_num] =
                     <<m.particle.position, m.particle.velocity>>],
              particle |-> m.particle, err |-> "none"]

\* sim.particle = p before the run
SetParticle(p) ==
    /\ status = "constructed"
    /\ particle' = Some(p)
    /\ call' = [op |-> "particle", arg |-> 0, who |-> 0, err |-> "none"]
    /\ reply' = NoReply
    /\ UNCHANGED <<ensembleVars, i, status, written, dimension, metad,
                   metad_freq, trajectory, run_steps, hillSteps>>

\* a read of one of the properties trajectory, positions, velocities
ReadProperty(name, r) ==
    /\ status # "running"
    /\ call' = [op |-> name, arg |-> 0, who |-> 0, err |-> r.err]
    /\ reply' = [printed |-> r.printed, value |-> r.value]
    /\ UNCHANGED <<ensembleVars, i, status, written, dimension, particle,
                   metad, metad_freq, trajectory, run_steps, hillSteps>>

ReadTrajectory == ReadProperty("trajectory", Trajectory(trajectory))

ReadPositions == ReadProperty("positions", Positions(trajectory, dimension))

ReadVelocities == ReadProperty("velocities", Velocities(trajectory, dimension))

\* Simulation.run(steps) up to its loop: the particle is looked at, the
\* trajectory allocated and row 0 assigned
RunBegin(st) ==
    /\ status = "constructed"
    /\ run_steps' = st
    /\ IF particle = None
       THEN /\ reply' = [printed |-> <<"using default particle">>,
                         value |-> None]
            /\ status' = "raised"
            /\ call' = [op |-> "run", arg |-> st, who |-> 0,
                        err |-> "AttributeError"]
            /\ UNCHANGED <<metad, trajectory, written, i>>
       ELSE /\ reply' = NoReply
            /\ metad' = Some(particle[1].metad)
            /\ IF 2 * dimension # 2
               THEN /\ trajectory' = Some(ZeroTrajectory(st, dimension))
                    /\ status' = "raised"
                    /\ call' = [op |-> "run", arg |-> st, who |-> 0,
                                err |-> "ValueError"]
                    /\ UNCHANGED <<written, i>>
               ELSE /\ trajectory' =
                         Some([ZeroTrajectory(st, dimension) EXCEPT ![0] =
                                 <<particle[1].position, particle[1].velocity>>])
                    /\ written' = {0}
                    /\ i' = 1
                    /\ status' = "running"
                    /\ call' = [op |-> "run", arg |-> st, who |-> 0,
                                err |-> "none"]
    /\ UNCHANGED <<ensembleVars, dimension, particle, metad_freq, hillSteps>>

\* one iteration of the loop of Simulation.run: add a hill when one is due,
\* then _time_step(i); an error ends the run
RunLoop ==
    /\ status = "running"
    /\ trajectory # None
    /\ i <= run_steps
    /\ \E e \in GaussianErrors :
       \E h \in {IF HillDue(metad[1], i, metad_freq)
                 THEN AddHill(particle[1])
                 ELSE [particle |-> particle[1], err |-> "none"]} :
       \E r \in {IF h.err # "none"
                 THEN [trajectory |-> trajectory[1], particle |-> h.particle,
                       err |-> h.err]
                 ELSE TimeStep(trajectory[1], h.particle, i, e)} :
          /\ hillSteps' = IF HillDue(metad[1], i, metad_freq)
                          THEN Append(hillSteps, i) ELSE hillSteps
          /\ particle' = Some(r.particle)
          /\ trajectory' = Some(r.trajectory)
          /\ written' = IF r.err = "none" THEN written \cup {i} ELSE written
          /\ i' = IF r.err = "none" THEN i + 1 ELSE i
          /\ status' = IF r.err = "none" THEN "running" ELSE "raised"
          /\ call' = [op |-> "run", arg |-> run_steps, who |-> 0,
                      err |-> r.err]
    /\ UNCHANGED <<ensembleVars, dimension, metad, metad_freq, run_steps,
                   reply>>

\* the loop of Simulation.run is exhausted: run() prints and returns
RunDone ==
    /\ status = "running"
    /\ trajectory # None
    /\ i > run_steps
    /\ status' = "returned"
    /\ reply' = [printed |-> <<"Done running">>, value |-> None]
    /\ call' = [op |-> "run", arg |-> run_steps, who |-> 0, err |-> "none"]
    /\ UNCHANGED <<ensembleVars, i, written, dimension, particle, metad,
                   metad_freq, trajectory, run_steps, hillSteps>>

\* ---------------------------------------------------------- specifications
NextReplicas == \E l \in 0..(size - 2) : Exchange(l)

SpecReplicas == InitReplicas /\ [][NextReplicas]_vars

InitWalker ==
    \E sz \in 2..MaxWalkers, se \in ScalingExponents :
        Construct(sz, 0, 1, StartTemp, se) /\ NoMetadynamics

NextWalker == \E w \in Slots, val \in (-1)..size : AssignRIndex(w, val)

SpecWalker == InitWalker /\ [][NextWalker]_vars

NextSystem == Sweep

SpecSystem == InitReplicas /\ [][NextSystem]_vars

InitSimulation ==
    \E sz \in 2..MaxSimSize, steps \in 0..MaxSteps, intv \in 1..MaxInterval,
       se \in ScalingExponents :
        Construct(sz, steps, intv, StartTemp, se) /\ NoMetadynamics

NextSimulation == RunIter \/ RunReturn

SpecSimulation == InitSimulation /\ [][NextSimulation]_vars

InitEnsemble ==
    \E sz \in 2..MaxEnsemble, se \in ScalingExponents :
        Construct(sz, 0, 1, StartTemp, se) /\ NoMetadynamics

NextEnsemble == (\E l \in 0..(size - 2) : Exchange(l)) \/ Sweep

SpecEnsemble == InitEnsemble /\ [][NextEnsemble]_vars

\* Replicas.exchange called with any integer near the valid range
InitAnySlot ==
    \E sz \in 2..MaxAnySize, se \in ScalingExponents :
        Construct(sz, 0, 1, StartTemp, se) /\ NoMetadynamics

NextAnySlot == \E l \in (-(size + 1))..size : Exchange(l)

SpecAnySlot == InitAnySlot /\ [][NextAnySlot]_vars

\* a metadynamics Simulation: construction, an optional particle, one run,
\* and reads of its properties before and after the run; there is no
\* replica-exchange ensemble (size 0)
InitMetad ==
    /\ Construct(0, 0, 1, StartTemp, 0)
    /\ \E dim_arg \in {None, Some(1), Some(2)},
          part \in {None} \cup {Some(p) : p \in Particles},
          fes \in {None} \cup {Some(f) : f \in Surfaces},
          freq \in 1..MaxFreq :
          /\ part # None => fes = None
          /\ SimulationInit(dim_arg, part, fes, freq)

NextMetad ==
    \/ \E p \in Particles : SetParticle(p)
    \/ \E st \in 0..MaxRunSteps : RunBegin(st)
    \/ RunLoop
    \/ RunDone
    \/ ReadTrajectory
    \/ ReadPositions
    \/ ReadVelocities

SpecMetad == InitMetad /\ [][NextMetad]_vars

\* ------------------------------------------------------------------ claims
\* C1: after any sequence of Replicas.exchange(lower_slot) calls with
\* 0 <= lower_slot <= size-2, indexes is a permutation of 0..size-1: every
\* walker identity occupies exactly one slot.
IndexesIsPermutation ==
    /\ DOMAIN indexes = Slots
    /\ \A w \in Slots : Cardinality({s \in Slots : indexes[s] = w}) = 1

\* the permutation has left the identity through an exchange
IndexesPermuted ==
    /\ call.op = "exchange"
    /\ \E s \in Slots : indexes[s] # s

\* C2: after any sequence of valid Replicas.exchange calls the walker recorded
\* in each slot agrees with its own slot field: replicas[slot].r_index == slot.
SlotFieldAgrees ==
    \A s \in Slots :
        /\ walkers[indexes[s]].r_index = s
        /\ Replicas(walkers, indexes)[s].r_index = s

\* a walker sits in a slot other than the one it was created in
WalkerDisplaced ==
    /\ call.op = "exchange"
    /\ call.err = "none"
    /\ \E w \in Slots : walkers[w].r_index # walkers[w].w_index

\* C7: Replicas.exchange(l) with 0 <= l <= size-2 swaps indexes[l] and
\* indexes[l+1] and leaves the other entries alone; the two occupants end in
\* each other's slot, each moved by exactly one, and no other walker's
\* r_index or temp changes.
ExchangeSwapsOnlyPair ==
    [][call'.op = "exchange" =>
        LET l == call'.arg
            lo == indexes[l]
            hi == indexes[l + 1]
        IN  /\ call'.err = "none"
            /\ indexes'[l] = hi
            /\ indexes'[l + 1] = lo
            /\ \A s \in Slots \ {l, l + 1} : indexes'[s] = indexes[s]
            /\ walkers'[lo].r_index = l + 1
            /\ walkers'[hi].r_index = l
            /\ Abs(walkers'[lo].r_index - walkers[lo].r_index) = 1
            /\ Abs(walkers'[hi].r_index - walkers[hi].r_index) = 1
            /\ \A w \in Slots \ {lo, hi} :
                /\ walkers'[w].r_index = walkers[w].r_index
                /\ walkers'[w].temp = walkers[w].temp]_vars

\* an exchange happened next to a walker that is not part of the pair and
\* that an earlier exchange had moved
ExchangeBesideBystander ==
    /\ call.op = "exchange"
    /\ call.err = "none"
    /\ \E w \in Slots :
        /\ walkers[w].r_index \notin {call.arg, call.arg + 1}
        /\ walkers[w].r_index # w
        /\ walkers[w].temp # temps[w]

\* C8: after valid exchanges each walker's temperature is the temperature of
\* the slot it occupies: w.temp == temps[w.r_index].
TempFollowsSlot ==
    \A w \in Slots :
        /\ walkers[w].r_index \in Slots
        /\ walkers[w].temp = temps[walkers[w].r_index]

\* a displaced walker carries a temperature other than its first one
TempChanged ==
    \E w \in Slots :
        /\ walkers[w].r_index # w
        /\ walkers[w].temp # SlotTemp(StartTemp, 50, w)
        /\ temps[0] # temps[1]

\* C9: temps is never modified after construction: neither Replicas.exchange
\* nor System.exchange changes any entry of temps.
TempsFrozen == [][temps' = temps]_vars

\* a direct exchange after a sweep that swapped, on a ladder of distinct temps
ExchangedAfterSwappingSweep ==
    /\ sweep.called
    /\ Len(sweep.swapped) > 0
    /\ call.op = "exchange"
    /\ temps[0] # temps[1]

\* C10: an assignment of r_index to new with |new - old| != 1 fails with a
\* ValueError and leaves r_index unchanged; with |new - old| == 1 it succeeds
\* and sets r_index to new.
SetterContract ==
    [][call'.op = "r_index" =>
        LET w == call'.who
            new == call'.arg
            old == walkers[w].r_index
        IN  IF Abs(new - old) # 1
            THEN call'.err = "ValueError" /\ walkers'[w].r_index = old
            ELSE call'.err = "none" /\ walkers'[w].r_index = new]_vars

\* a walker that had been moved was then assigned its own slot and refused
SelfAssignRefused ==
    /\ call.op = "r_index"
    /\ call.err = "ValueError"
    /\ walkers[call.who].r_index # call.who
    /\ call.arg = walkers[call.who].r_index

\* ------------------------------------------------- claims the code breaks
\* the pairs System.exchange() is to evaluate at parity offset o
PairsOfOffset(o) ==
    {p \in Slots : p >= o /\ (p - o) % 2 = 0 /\ p + 1 <= size - 1}

SeqRange(q) == {q[k] : k \in 1..Len(q)}

\* C3: a System.exchange() at parity offset o evaluates exactly the pairs
\* (o+2k, o+2k+1) that fit below size, never reads a slot index >= size and
\* returns without raising an error.
SweepStaysInRange ==
    sweep.called =>
        /\ SeqRange(sweep.pairs) = PairsOfOffset(sweep.offset)
        /\ sweep.reads \subseteq Slots
        /\ sweep.err = "none"

\* C4: Simulation.run() returns normally after exactly n_steps iterations
\* with every row 0..n_steps-1 of energies and states written.
RunReturnsComplete ==
    status \in {"returned", "raised"} =>
        /\ status = "returned"
        /\ i = n_steps
        /\ written = 0..(n_steps - 1)

\* C5: every System.exchange() toggles _last_exchange_even; the k-th sweep
\* since construction uses offset (k-1) mod 2.
OffsetsAlternate ==
    /\ \A k \in 1..Len(offsets) : offsets[k] = (k - 1) % 2
    /\ last_exchange_even = (Len(offsets) % 2 = 1)

\* C6: over two consecutive System.exchange() sweeps every adjacent pair
\* (p, p+1) with 0 <= p <= size-2 is evaluated in exactly one of the two.
EveryPairOncePerTwoSweeps ==
    Len(offsets) >= 2 =>
        \A p \in 0..(size - 2) :
            (p \in SeqRange(prevPairs)) # (p \in SeqRange(sweep.pairs))

\* C11: for every lower_slot outside [0, size-2] Replicas.exchange(lower_slot)
\* is rejected with an IndexError.
OutOfRangeRejected ==
    (call.op = "exchange" /\ call.arg \notin 0..(size - 2)) =>
        call.err = "IndexError"

\* C12: whenever Replicas.exchange raises an error, indexes, temps and every
\* walker's r_index and temp are as they were before the call.
FailedExchangeChangesNothing ==
    [][(call'.op = "exchange" /\ call'.err # "none") =>
        /\ indexes' = indexes
        /\ temps' = temps
        /\ walkers' = walkers]_vars

\* C13: each step t of Simulation.run() first records the permutation in
\* effect into row t and only then, iff (t+1) % interval == 0, calls
\* System.exchange() exactly once; states[0] is always the identity.
RecordThenExchange ==
    /\ [](0 \in written => states[0] = [s \in Slots |-> s])
    /\ [][written' # written =>
            /\ written' = written \cup {i}
            /\ states'[i] = indexes
            /\ ((i + 1) % interval = 0 =>
                    Len(offsets') = Len(offsets) + 1)
            /\ ((i + 1) % interval # 0 =>
                    offsets' = offsets /\ indexes' = indexes)]_vars

\* a row was recorded and the exchange of the same step then swapped a pair
RowPrecedesSwap ==
    /\ status = "raised"
    /\ i \in written
    /\ Len(sweep.swapped) > 0
    /\ states[i] # indexes
    /\ states[0] = [s \in Slots |-> s]

\* the slot of walker w in a recorded row
SlotOf(row, w) == CHOOSE p \in DOMAIN row : row[p] = w

\* from row r1 to row r2 every walker moves by at most one slot, and a walker
\* that moved changed places with the walker that was in its new slot
AdjacentSwapsOnly(r1, r2) ==
    \A w \in Slots :
        LET p1 == SlotOf(r1, w)
            p2 == SlotOf(r2, w)
        IN  /\ Abs(p2 - p1) <= 1
            /\ p2 # p1 => SlotOf(r2, r1[p2]) = p1

IsPermutationRow(row) ==
    \A w \in Slots : Cardinality({p \in DOMAIN row : row[p] = w}) = 1

\* C15: when run() ends, however it ends, every row t in 0..n_steps-1 of
\* states is a permutation of 0..size-1.
AllRowsPermutations ==
    status \in {"returned", "raised"} =>
        \A t \in 0..(n_steps - 1) : IsPermutationRow(states[t])

\* C16: within one System.exchange() sweep no slot belongs to more than one
\* evaluated pair, and from the start to the end of the sweep every walker's
\* r_index changes by at most 1.
OneMovePerSweep ==
    [][offsets' # offsets =>
        /\ \A j, k \in 1..Len(sweep'.pairs) :
              j # k => {sweep'.pairs[j], sweep'.pairs[j] + 1} \cap
                       {sweep'.pairs[k], sweep'.pairs[k] + 1} = {}
        /\ \A w \in Slots :
              Abs(walkers'[w].r_index - walkers[w].r_index) <= 1]_vars

\* a sweep evaluated two pairs and swapped both
TwoPairsSwapped ==
    /\ sweep.called
    /\ Len(sweep.pairs) = 2
    /\ Len(sweep.swapped) = 2

\* the acceptance probability of pair (p, p+1) computed from energies e and
\* temperatures t, in units of 1/2
PairProb(e, t, p) ==
    IF (e[p] - e[p + 1]) * (t[p + 1] - t[p]) >= 0 THEN 2 ELSE 1

\* C17: every acceptance decision of one System.exchange() sweep uses the one
\* energy sample taken at the top of the sweep and the temperatures as they
\* were then; a swap of an earlier pair does not change what a later pair is
\* decided on.
SingleSnapshotDecides ==
    [][offsets' # offsets =>
        /\ Len(sweep'.probs) = Len(sweep'.pairs)
        /\ \A j \in 1..Len(sweep'.pairs) :
              /\ sweep'.probs[j] =
                    PairProb(sweep'.energies, temps, sweep'.pairs[j])
              /\ sweep'.probs[j] = 2 =>
                    sweep'.pairs[j] \in SeqRange(sweep'.swapped)]_vars

\* the first pair of a sweep was swapped and the second pair was then
\* decided with a probability below 1
LaterPairAfterSwap ==
    /\ sweep.called
    /\ Len(sweep.pairs) = 2
    /\ sweep.pairs[1] \in SeqRange(sweep.swapped)
    /\ sweep.probs[2] = 1

\* the energy sample of the last sweep is the same in every slot
FlatSnapshot ==
    \A a, b \in Slots : sweep.energies[a] = sweep.energies[b]

\* C18: when the sampled energies are equal across all slots, the acceptance
\* probability of every evaluated pair is exactly 1 and, whatever the draws,
\* Replicas.exchange is called for every eligible pair of the sweep.
FlatEnergiesAlwaysSwap ==
    (sweep.called /\ FlatSnapshot) =>
        /\ \A j \in 1..Len(sweep.probs) : sweep.probs[j] = 2
        /\ sweep.swapped = sweep.pairs
        /\ SeqRange(sweep.pairs) = PairsOfOffset(sweep.offset)

\* a sweep over equal energies on a ladder of distinct temperatures swapped
\* two pairs
FlatSweepSwappedAll ==
    /\ sweep.called
    /\ FlatSnapshot
    /\ Len(sweep.swapped) = 2
    /\ temps[0] # temps[1]

\* a row of a log as np.zeros allocated it
ZeroRow == [s \in Slots |-> 0]

\* C19: run() writes row t of energies and states once, in increasing order
\* of t; a written row is not changed by later steps or exchanges, and the
\* rows above the current step keep their allocated value.
LogsFilledInOrder ==
    [][/\ written \subseteq written'
       /\ \A t \in written :
            states'[t] = states[t] /\ energies'[t] = energies[t]
       /\ written' # written =>
            /\ written' \ written = {i}
            /\ \A u \in written : u < i
       /\ \A t \in (0..(n_steps - 1)) \ written' :
            states'[t] = ZeroRow /\ energies'[t] = ZeroRow]_vars

\* row 0 was recorded at one step and a later step's exchange swapped a pair
EarlierRowSurvivesSwap ==
    /\ status = "raised"
    /\ i >= 1
    /\ written = 0..i
    /\ Len(sweep.swapped) > 0
    /\ states[0] # indexes

\* C20: an error raised inside System.exchange() during Simulation.run() is
\* not caught or retried: run() ends with that error at that step and no row
\* with a larger index is written.
ErrorEndsRun ==
    /\ []((sweep.called /\ sweep.err # "none") =>
            /\ status = "raised"
            /\ call.err = sweep.err
            /\ written = 0..i)
    /\ [][status = "raised" => FALSE]_vars

\* run() has raised while rows remained to be recorded
RaisedBeforeLastRow ==
    /\ status = "raised"
    /\ call.err = "IndexError"
    /\ i + 1 < n_steps
    /\ states[i + 1] = ZeroRow

\* C22: walker identity is immutable and walkers is never reordered: after
\* any sequence of exchanges walkers[i].w_index == i for every i in
\* 0..size-1.
IdentityKeepsPosition ==
    /\ DOMAIN walkers = Slots
    /\ \A w \in Slots : walkers[w].w_index = w

\* every walker of an ensemble of three or more has left its first slot
AllWalkersMoved ==
    /\ call.op = "exchange"
    /\ call.err = "none"
    /\ size >= 3
    /\ \A w \in Slots : walkers[w].r_index # w

\* C24: between two consecutive recorded steps with no exchange in between
\* the permutation does not change: for every t with (t+1) % interval != 0
\* and t+1 < n_steps, states[t+1] == states[t], for the rows recorded so far
\* and for the whole log once run() has ended.
QuietStepKeepsRow ==
    \A t \in 0..(n_steps - 2) :
        (/\ (t + 1) % interval # 0
         /\ \/ (t \in written /\ t + 1 \in written)
            \/ status \in {"returned", "raised"}) =>
            states[t + 1] = states[t]

\* rows 0 and 1 were recorded with no exchange due between them
QuietPairRecorded ==
    /\ 0 \in written
    /\ 1 \in written
    /\ (0 + 1) % interval # 0
    /\ states[1] = indexes

\* C25: Replicas.exchange is an involution on valid slots: in every reachable
\* state and for every l with 0 <= l <= size-2, exchange(l) called twice in a
\* row restores indexes, every walker's r_index and every walker's temp.
ExchangeTwiceRestores ==
    \A l \in 0..(size - 2) :
        LET r1 == ReplicasExchange(size, temps, walkers, indexes, l)
            r2 == ReplicasExchange(size, r1.temps, r1.walkers, r1.indexes, l)
        IN  /\ r1.err = "none"
            /\ r2.err = "none"
            /\ r1.indexes # indexes
            /\ r2.indexes = indexes
            /\ \A w \in Slots :
                /\ r2.walkers[w].r_index = walkers[w].r_index
                /\ r2.walkers[w].temp = walkers[w].temp

\* after an exchange, on a ladder of distinct temperatures, another pair of
\* slots holds two walkers that earlier exchanges brought there
DisplacedPairExchanged ==
    /\ call.op = "exchange"
    /\ call.err = "none"
    /\ temps[0] # temps[1]
    /\ \E l \in 0..(size - 2) :
        /\ l # call.arg
        /\ indexes[l] \notin {l, l + 1}
        /\ indexes[l + 1] \notin {l, l + 1}
        /\ walkers[indexes[l]].temp = temps[l]

\* C21: reading the logs before run() has executed surfaces an explicit
\* "no data yet" condition that the caller can tell from recorded data, and
\* never crashes (here: trajectory, positions and velocities of the
\* metadynamics Simulation).
ReadBeforeRunSurfacesNoData ==
    (call.op \in {"trajectory", "positions", "velocities"}
        /\ status = "constructed") =>
        /\ call.err = "none"
        /\ reply.printed # << >>
        /\ reply.value = None

\* C23: the metadynamics Simulation.run(steps) called while no particle has
\* been set uses a default particle and completes the run, rather than
\* failing.
RunWithoutParticleCompletes ==
    (call.op = "run" /\ particle = None) =>
        /\ call.err = "none"
        /\ status \in {"running", "returned"}
        /\ trajectory # None

\* the steps of 1..st at which a hill is due, in increasing order
RECURSIVE HillStepsUpTo(_, _)
HillStepsUpTo(st, freq) ==
    IF st < 1 THEN << >>
    ELSE IF st % freq = 0 THEN Append(HillStepsUpTo(st - 1, freq), st)
    ELSE HillStepsUpTo(st - 1, freq)

\* C26: when run(steps) of a Simulation with a particle of its dimension has
\* ended, the trajectory has steps+1 rows, all assigned, the last being the
\* particle's state after its last move; for a metadynamics particle a hill
\* was deposited exactly at the steps i in 1..steps with i % metad_freq == 0,
\* each at the position before the move of that step (floor(steps /
\* metad_freq) hills), and for any other particle add_hill was never called.
RunFillsTrajectoryAndHills ==
    (/\ status \in {"returned", "raised"}
     /\ particle # None
     /\ dimension = 1) =>
        /\ status = "returned"
        /\ trajectory # None
        /\ DOMAIN trajectory[1] = 0..run_steps
        /\ written = 0..run_steps
        /\ trajectory[1][run_steps] =
              <<particle[1].position, particle[1].velocity>>
        /\ IF metad[1]
           THEN /\ hillSteps = HillStepsUpTo(run_steps, metad_freq)
                /\ Len(hillSteps) = run_steps \div metad_freq
                /\ Len(particle[1].FES.hill_list) = Len(hillSteps)
                /\ \A j \in 1..Len(hillSteps) :
                      particle[1].FES.hill_list[j] =
                          trajectory[1][hillSteps[j] - 1][1]
           ELSE /\ hillSteps = << >>
                /\ particle[1].FES.hill_list = << >>

====
